---- MODULE Spec2Model ----
(***************************************************************************)
(* Model of the PDF maximum-number finder: pdf_max_finder.py (plain-regex  *)
(* extractor) and pdf_max_finder_nlp.py (context-aware extractor).         *)
(*                                                                         *)
(* Texts are sequences of one-character strings.  Offsets are Python's:    *)
(* offset p lies before character s[p+1]; a span <<a, b>> is half-open.    *)
(* Floats are decimal numbers m * 10^e whose mantissa holds at most        *)
(* MaxMant (the model's float precision); Python ints are unbounded and    *)
(* never wrap.                                                             *)
(***************************************************************************)
EXTENDS Integers, Sequences, FiniteSets, TLC

\* ------------------------------------------------------------ characters

Digits == {"0", "1", "2", "3", "4", "5", "6", "7", "8", "9"}

LowerSeq == <<"a", "b", "c", "d", "e", "f", "g", "h", "i", "j", "k", "l", "m",
              "n", "o", "p", "q", "r", "s", "t", "u", "v", "w", "x", "y", "z">>

UpperSeq == <<"A", "B", "C", "D", "E", "F", "G", "H", "I", "J", "K", "L", "M",
              "N", "O", "P", "Q", "R", "S", "T", "U", "V", "W", "X", "Y", "Z">>

LowerSet == {LowerSeq[i] : i \in 1..26}

UpperSet == {UpperSeq[i] : i \in 1..26}

\* \s of the re module (ASCII part)
Whitespace == {" ", "\n", "\t", "\r", "\f"}

\* \w of the re module (ASCII part)
WordChars == Digits \cup LowerSet \cup UpperSet \cup {"_"}

IsWordChar(c) == c \in WordChars

LowerMap == [c \in UpperSet |-> LowerSeq[CHOOSE i \in 1..26 : UpperSeq[i] = c]]

UpperMap == [c \in LowerSet |-> UpperSeq[CHOOSE i \in 1..26 : LowerSeq[i] = c]]

\* str.lower() on one character
LowerChar(c) == IF c \in UpperSet THEN LowerMap[c] ELSE c

\* str.upper() on one character
UpperChar(c) == IF c \in LowerSet THEN UpperMap[c] ELSE c

\* str.lower()
Lower(s) == [i \in 1..Len(s) |-> LowerChar(s[i])]

\* str.upper()
Upper(s) == [i \in 1..Len(s) |-> UpperChar(s[i])]

\* s[a:b] with 0 <= a, b <= len(s)
Slice(s, a, b) == IF b <= a THEN <<>> ELSE SubSeq(s, a + 1, b)

\* str.replace(c, '') for a one-character c
RECURSIVE RemoveChar(_, _)
RemoveChar(s, c) ==
  IF s = <<>> THEN <<>>
  ELSE IF Head(s) = c THEN RemoveChar(Tail(s), c)
  ELSE <<Head(s)>> \o RemoveChar(Tail(s), c)

\* c in s
Contains(s, c) == \E i \in 1..Len(s) : s[i] = c

Min2(a, b) == IF a < b THEN a ELSE b

Max2(a, b) == IF a > b THEN a ELSE b

\* ------------------------------------------------------------ floats

\* Largest mantissa a model float holds (its precision).
MaxMant == 9999

\* A float overflows above 1.797e308 (an int of more than FLOAT_MAX_10_EXP
\* zeros does not convert) and underflows to zero below 5e-324.
FLOAT_MAX_10_EXP == 308

FLOAT_MIN_10_EXP == 323

PosInf == [m |-> 1, e |-> FLOAT_MAX_10_EXP + 1]

NegInf == [m |-> -1, e |-> FLOAT_MAX_10_EXP + 1]

Zero == [m |-> 0, e |-> 0]

RECURSIVE NumDigits(_)
NumDigits(n) == IF n < 10 THEN 1 ELSE 1 + NumDigits(n \div 10)

Abs(n) == IF n < 0 THEN -n ELSE n

Sign(n) == IF n < 0 THEN -1 ELSE IF n > 0 THEN 1 ELSE 0

RECURSIVE Pow10(_)
Pow10(k) == IF k <= 0 THEN 1 ELSE 10 * Pow10(k - 1)

\* Position of the leading digit: m * 10^e lies in [10^(Mag-1), 10^Mag).
Mag(d) == NumDigits(Abs(d.m)) + d.e

IsInf(d) == d.m # 0 /\ d.e > FLOAT_MAX_10_EXP

\* Round a non-negative mantissa to the precision and drop trailing zeros.
RECURSIVE NormAbs(_, _)
NormAbs(m, e) ==
  IF m = 0 THEN <<0, 0>>
  ELSE IF m > MaxMant THEN NormAbs(m \div 10, e + 1)
  ELSE IF m % 10 = 0 THEN NormAbs(m \div 10, e + 1)
  ELSE <<m, e>>

\* The float nearest m * 10^e: canonical form, infinities and underflow.
Dec(m, e) ==
  LET n == NormAbs(Abs(m), e)
      d == [m |-> Sign(m) * n[1], e |-> n[2]]
  IN IF d.m = 0 THEN Zero
     ELSE IF Mag(d) > FLOAT_MAX_10_EXP + 1
             \/ (Mag(d) = FLOAT_MAX_10_EXP + 1 /\ n[1] * Pow10(4 - NumDigits(n[1])) > 1797)
          THEN (IF m < 0 THEN NegInf ELSE PosInf)
     ELSE IF Mag(d) < -FLOAT_MIN_10_EXP THEN Zero
     ELSE d

\* float * float
DecMul(a, b) ==
  IF IsInf(a) \/ IsInf(b)
  THEN (IF a.m = 0 \/ b.m = 0 THEN Zero
        ELSE IF Sign(a.m) * Sign(b.m) < 0 THEN NegInf ELSE PosInf)
  ELSE Dec(a.m * b.m, a.e + b.e)

\* a < b on non-negative floats
LessAbs(a, b) ==
  IF a.m = 0 THEN b.m # 0
  ELSE IF b.m = 0 THEN FALSE
  ELSE IF Mag(a) # Mag(b) THEN Mag(a) < Mag(b)
  ELSE IF a.e >= b.e THEN a.m * Pow10(a.e - b.e) < b.m
  ELSE a.m < b.m * Pow10(b.e - a.e)

Neg(a) == [m |-> -a.m, e |-> a.e]

\* float < float
DecLess(a, b) ==
  IF a.m < 0 /\ b.m >= 0 THEN TRUE
  ELSE IF a.m >= 0 /\ b.m < 0 THEN FALSE
  ELSE IF a.m < 0 THEN LessAbs(Neg(b), Neg(a))
  ELSE LessAbs(a, b)

\* int(s) for a string of digits, as a float-ready pair (digits beyond the
\* precision are rounded away)
RECURSIVE DigitsAcc(_, _, _)
DigitsAcc(s, m, e) ==
  IF s = <<>> THEN <<m, e>>
  ELSE LET k == CHOOSE k \in 0..9 : ToString(k) = Head(s)
       IN IF m * 10 + k <= MaxMant
          THEN DigitsAcc(Tail(s), m * 10 + k, e)
          ELSE DigitsAcc(Tail(s), m, e + 1)

\* Index of the first c in s, or 0
IndexOf(s, c) ==
  IF Contains(s, c) THEN CHOOSE i \in 1..Len(s) : s[i] = c /\ \A j \in 1..(i - 1) : s[j] # c
  ELSE 0

\* float(s) for s of the form -?<digits>[.<digits>]
ParseFloat(s) ==
  LET neg  == s # <<>> /\ Head(s) = "-"
      body == IF neg THEN Tail(s) ELSE s
      dot  == IndexOf(body, ".")
      ip   == IF dot = 0 THEN body ELSE SubSeq(body, 1, dot - 1)
      fp   == IF dot = 0 THEN <<>> ELSE SubSeq(body, dot + 1, Len(body))
      acc  == DigitsAcc(ip \o fp, 0, 0)
      d    == Dec(acc[1], acc[2] - Len(fp))
  IN IF neg THEN Neg(d) ELSE d

\* int(s) for s of the form [+-]?<digits>, exact while it matters: an exponent
\* beyond IntCap acts like any other exponent beyond every threshold
IntCap == 100000

RECURSIVE IntAcc(_, _)
IntAcc(s, n) ==
  IF s = <<>> THEN n
  ELSE LET k == CHOOSE k \in 0..9 : ToString(k) = Head(s)
       IN IntAcc(Tail(s), Min2(n * 10 + k, IntCap))

ParseInt(s) ==
  IF s # <<>> /\ Head(s) = "-" THEN -IntAcc(Tail(s), 0)
  ELSE IF s # <<>> /\ Head(s) = "+" THEN IntAcc(Tail(s), 0)
  ELSE IntAcc(s, 0)

\* float ** int for a non-negative base and exponent; "overflow" stands for
\* OverflowError (the C library's range error)
RECURSIVE FloatPow(_, _)
FloatPow(b, n) ==
  IF n = 0 THEN Dec(1, 0)
  ELSE IF n % 2 = 0
       THEN LET h == FloatPow(b, n \div 2) IN DecMul(h, h)
       ELSE DecMul(b, FloatPow(b, n - 1))

\* ------------------------------------------------------------ re module

(***************************************************************************)
(* A regular expression is a tree of nodes.  MatchAt is the backtracking   *)
(* matcher of re: it tries greedy repeats longest first and alternatives   *)
(* left to right, and answers the end offset of the first way the whole    *)
(* expression matches, which is the match re reports.                      *)
(***************************************************************************)
\* one character of cs
RSet(cs) == [t |-> "set", cs |-> cs, rs |-> <<>>, lo |-> 0, hi |-> 0]

\* \b
RWordB == [t |-> "wb", cs |-> {}, rs |-> <<>>, lo |-> 0, hi |-> 0]

\* r1 r2 ... rn
RSeq(rs) == [t |-> "seq", cs |-> {}, rs |-> rs, lo |-> 0, hi |-> 0]

\* r1 | r2 | ... | rn
RAlt(rs) == [t |-> "alt", cs |-> {}, rs |-> rs, lo |-> 0, hi |-> 0]

\* r{lo,hi}, greedy; hi = -1 is unbounded
RRep(r, lo, hi) == [t |-> "rep", cs |-> {}, rs |-> <<r>>, lo |-> lo, hi |-> hi]

ROpt(r) == RRep(r, 0, 1)

RStar(r) == RRep(r, 0, -1)

RPlus(r) == RRep(r, 1, -1)

\* a literal string (re.escape of it, or a word of letters)
RStr(w) == RSeq([i \in 1..Len(w) |-> RSet({w[i]})])

RDigit == RSet(Digits)

RSpace == RSet(Whitespace)

\* Whether character c matches the set cs (ic: re.IGNORECASE)
CharIn(c, cs, ic) ==
  \/ c \in cs
  \/ ic /\ (LowerChar(c) \in cs \/ UpperChar(c) \in cs)

\* \b at offset p of s
AtWordBoundary(s, p) ==
  LET before == p >= 1 /\ IsWordChar(s[p])
      after  == p < Len(s) /\ IsWordChar(s[p + 1])
  IN before # after

\* The end offset of the first match, from offset p, of the expressions of
\* todo one after the other, or -1.  No repeated expression here can match
\* the empty string, so a repeat always moves forward.
RECURSIVE MatchAt(_, _, _, _), AltMatch(_, _, _, _, _, _)
MatchAt(todo, s, p, ic) ==
  IF todo = <<>> THEN p
  ELSE LET r    == Head(todo)
           rest == Tail(todo)
       IN CASE r.t = "set" -> IF p < Len(s) /\ CharIn(s[p + 1], r.cs, ic)
                              THEN MatchAt(rest, s, p + 1, ic) ELSE -1
            [] r.t = "wb"  -> IF AtWordBoundary(s, p) THEN MatchAt(rest, s, p, ic) ELSE -1
            [] r.t = "seq" -> MatchAt(r.rs \o rest, s, p, ic)
            [] r.t = "alt" -> AltMatch(r.rs, 1, rest, s, p, ic)
            [] r.t = "rep" ->
                 LET more == IF r.hi = 0 THEN -1
                             ELSE MatchAt(<<r.rs[1],
                                            RRep(r.rs[1], Max2(r.lo - 1, 0),
                                                 IF r.hi < 0 THEN r.hi ELSE r.hi - 1)>>
                                          \o rest, s, p, ic)
                 IN IF more # -1 THEN more
                    ELSE IF r.lo = 0 THEN MatchAt(rest, s, p, ic)
                    ELSE -1

AltMatch(rs, k, rest, s, p, ic) ==
  IF k > Len(rs) THEN -1
  ELSE LET e == MatchAt(<<rs[k]>> \o rest, s, p, ic)
       IN IF e # -1 THEN e ELSE AltMatch(rs, k + 1, rest, s, p, ic)

NoMatch == <<-1, -1>>

\* Whether r can match without consuming a character
RECURSIVE Nullable(_)
Nullable(r) ==
  CASE r.t = "set" -> FALSE
    [] r.t = "wb"  -> TRUE
    [] r.t = "seq" -> \A i \in 1..Len(r.rs) : Nullable(r.rs[i])
    [] r.t = "alt" -> \E i \in 1..Len(r.rs) : Nullable(r.rs[i])
    [] r.t = "rep" -> r.lo = 0 \/ Nullable(r.rs[1])

\* The characters a non-empty match of r can start with
RECURSIVE FirstChars(_), SeqFirst(_, _)
SeqFirst(rs, k) ==
  IF k > Len(rs) THEN {}
  ELSE FirstChars(rs[k]) \cup (IF Nullable(rs[k]) THEN SeqFirst(rs, k + 1) ELSE {})

FirstChars(r) ==
  CASE r.t = "set" -> r.cs
    [] r.t = "wb"  -> {}
    [] r.t = "seq" -> SeqFirst(r.rs, 1)
    [] r.t = "alt" -> UNION {FirstChars(r.rs[i]) : i \in 1..Len(r.rs)}
    [] r.t = "rep" -> IF r.hi = 0 THEN {} ELSE FirstChars(r.rs[1])

\* The scan for the leftmost match: an offset whose character cannot start
\* a match (fc: the characters that can, nul: whether the empty match can)
\* is passed over without running the matcher
RECURSIVE Scan(_, _, _, _, _, _)
Scan(r, fc, nul, s, pos, ic) ==
  IF pos > Len(s) THEN NoMatch
  ELSE IF ~nul /\ (pos = Len(s) \/ ~CharIn(s[pos + 1], fc, ic))
       THEN Scan(r, fc, nul, s, pos + 1, ic)
       ELSE LET e == MatchAt(<<r>>, s, pos, ic)
            IN IF e # -1 THEN <<pos, e>>
               ELSE Scan(r, fc, nul, s, pos + 1, ic)

\* pattern.search(s, pos): the span <<start, end>> of the leftmost match
\* starting at or after pos, or NoMatch
SearchFrom(r, s, pos, ic) == Scan(r, FirstChars(r), Nullable(r), s, pos, ic)

\* re.search(pattern, s, flags)
Search(r, s, ic) == SearchFrom(r, s, 0, ic)

\* re.finditer(pattern, s): the spans of the non-overlapping matches, left
\* to right (an empty match moves the scan on by one character)
RECURSIVE FindIterFrom(_, _, _)
FindIterFrom(r, s, pos) ==
  LET m == SearchFrom(r, s, pos, FALSE)
  IN IF m = NoMatch THEN <<>>
     ELSE <<m>> \o FindIterFrom(r, s, IF m[2] > m[1] THEN m[2] ELSE m[2] + 1)

FindIter(r, s) == FindIterFrom(r, s, 0)

\* ------------------------------------------------------------ constants

\* SCALE_MULTIPLIERS, in the dict's insertion order (the order .items()
\* iterates in); 1_000_000 is Dec(1, 6)
SCALE_MULTIPLIERS == <<
  [word |-> <<"t", "r", "i", "l", "l", "i", "o", "n">>, value |-> Dec(1, 12)],
  [word |-> <<"t", "r", "i", "l", "l", "i", "o", "n", "s">>, value |-> Dec(1, 12)],
  [word |-> <<"b", "i", "l", "l", "i", "o", "n">>, value |-> Dec(1, 9)],
  [word |-> <<"b", "i", "l", "l", "i", "o", "n", "s">>, value |-> Dec(1, 9)],
  [word |-> <<"m", "i", "l", "l", "i", "o", "n">>, value |-> Dec(1, 6)],
  [word |-> <<"m", "i", "l", "l", "i", "o", "n", "s">>, value |-> Dec(1, 6)],
  [word |-> <<"t", "h", "o", "u", "s", "a", "n", "d">>, value |-> Dec(1, 3)],
  [word |-> <<"t", "h", "o", "u", "s", "a", "n", "d", "s">>, value |-> Dec(1, 3)],
  [word |-> <<"h", "u", "n", "d", "r", "e", "d">>, value |-> Dec(1, 2)],
  [word |-> <<"h", "u", "n", "d", "r", "e", "d", "s">>, value |-> Dec(1, 2)],
  [word |-> <<"t", "n">>, value |-> Dec(1, 12)],
  [word |-> <<"b", "n">>, value |-> Dec(1, 9)],
  [word |-> <<"m", "n">>, value |-> Dec(1, 6)],
  [word |-> <<"m", "i", "l">>, value |-> Dec(1, 6)],
  [word |-> <<"k">>, value |-> Dec(1, 3)],
  [word |-> <<"g", "i", "g", "a">>, value |-> Dec(1, 9)],
  [word |-> <<"m", "e", "g", "a">>, value |-> Dec(1, 6)],
  [word |-> <<"k", "i", "l", "o">>, value |-> Dec(1, 3)],
  [word |-> <<"b">>, value |-> Dec(1, 9)],
  [word |-> <<"m">>, value |-> Dec(1, 6)] >>

\* abbrev_multipliers, keyed by the lower-cased letter
abbrev_multipliers ==
  [c \in {"k", "m", "b", "t"} |->
     CASE c = "k" -> Dec(1, 3) [] c = "m" -> Dec(1, 6)
       [] c = "b" -> Dec(1, 9) [] c = "t" -> Dec(1, 12)]

\* context_window: int = 50
CONTEXT_WINDOW == 50

\* the exponent limit of power notation
POWER_EXPONENT_LIMIT == 1000

\* the entity window: 20 characters before, 50 after
ENT_WINDOW_BEFORE == 20

ENT_WINDOW_AFTER == 50

\* sorted_numbers[:10]
TOP_N == 10

ENTITY_LABELS == {"MONEY", "QUANTITY", "PERCENT", "CARDINAL"}

\* ------------------------------------------------------------ patterns

\* \d+\.?\d*
RDecimal == RSeq(<<RPlus(RDigit), ROpt(RSet({"."})), RStar(RDigit)>>)

\* sci_pattern = (\d+\.?\d*)[eE]([+-]?\d+)
sci_pattern ==
  RSeq(<<RDecimal, RSet({"e", "E"}), ROpt(RSet({"+", "-"})), RPlus(RDigit)>>)

\* power_pattern = (\d+\.?\d*)\^(\d+)
power_pattern == RSeq(<<RDecimal, RSet({"^"}), RPlus(RDigit)>>)

\* -?\$?\d{1,3}(?:,\d{3})<groups>(?:\.\d+)?%?|-?\$?\d+\.?\d*%?  where <groups>
\* is + (lo = 1) in number_pattern and * (lo = 0) in num_re
NumberRegex(lo) ==
  RAlt(<<
    RSeq(<<ROpt(RSet({"-"})), ROpt(RSet({"$"})), RRep(RDigit, 1, 3),
           RRep(RSeq(<<RSet({","}), RRep(RDigit, 3, 3)>>), lo, -1),
           ROpt(RSeq(<<RSet({"."}), RPlus(RDigit)>>)), ROpt(RSet({"%"}))>>),
    RSeq(<<ROpt(RSet({"-"})), ROpt(RSet({"$"})), RDecimal, ROpt(RSet({"%"}))>>) >>)

\* number_pattern of extract_numbers_with_context and pattern of
\* extract_numbers_from_text (the same expression)
number_pattern == NumberRegex(1)

\* num_re of extract_entities_with_spacy
num_re == NumberRegex(0)

(***************************************************************************)
(* The scale patterns are only asked whether they match somewhere          *)
(* (re.search(...) as a condition), so each is stated as the existence of  *)
(* a match: an occurrence of the scale word with the rest of the pattern   *)
(* around it.  The context is lower-cased, the scale words are lower-case  *)
(* and number_str holds no letter, so re.IGNORECASE changes nothing.       *)
(***************************************************************************)
\* s[p:p+len(w)] == w
StartsAt(s, p, w) ==
  /\ p >= 0
  /\ p + Len(w) <= Len(s)
  /\ w # <<>> => s[p + 1] = w[1]
  /\ SubSeq(s, p + 1, p + Len(w)) = w

\* Offsets at which the word w occurs in s
Occurrences(s, w) == {p \in 0..(Len(s) - Len(w)) : StartsAt(s, p, w)}

\* s[a:b] is a non-empty run of whitespace: a match of \s+
SpaceRun(s, a, b) ==
  /\ 0 <= a /\ a < b /\ b <= Len(s)
  /\ \A i \in (a + 1)..b : s[i] \in Whitespace

\* Offsets at which a match of \s+ that starts at a can end
SpaceEnds(s, a) == {b \in (a + 1)..Len(s) : SpaceRun(s, a, b)}

\* Offsets at which a match of \s+ that ends at b can start
SpaceStarts(s, b) == {a \in 0..(b - 1) : SpaceRun(s, a, b)}

\* Offsets at which a match of <word>s? that starts at p can end
PluralEnds(s, p, w) ==
  {p + Len(w)} \cup (IF StartsAt(s, p + Len(w), <<"s">>) THEN {p + Len(w) + 1} ELSE {})

\* (?:dollars?|pounds?|euros?) matches at q
Currency3At(s, q) ==
  StartsAt(s, q, <<"d", "o", "l", "l", "a", "r">>) \/ StartsAt(s, q, <<"p", "o", "u", "n", "d">>) \/ StartsAt(s, q, <<"e", "u", "r", "o">>)

\* (?:dollars?|pounds?) matches at q
Currency2At(s, q) ==
  StartsAt(s, q, <<"d", "o", "l", "l", "a", "r">>) \/ StartsAt(s, q, <<"p", "o", "u", "n", "d">>)

\* rf'\b{re.escape(number_str)}\s+{scale_word}\b'  -- "3.5 million"
ScalePattern1(s, number_str, w) ==
  \E p \in Occurrences(s, w) :
    /\ AtWordBoundary(s, p + Len(w))
    /\ \E q \in SpaceStarts(s, p) :
         /\ StartsAt(s, q - Len(number_str), number_str)
         /\ AtWordBoundary(s, q - Len(number_str))

\* rf'\b{scale_word}\s+(?:of\s+)?(?:dollars?|pounds?|euros?)'  -- "million dollars"
ScalePattern2(s, w) ==
  \E p \in Occurrences(s, w) :
    /\ AtWordBoundary(s, p)
    /\ \E q \in SpaceEnds(s, p + Len(w)) :
         \/ Currency3At(s, q)
         \/ /\ StartsAt(s, q, <<"o", "f">>)
            /\ \E q2 \in SpaceEnds(s, q + 2) : Currency3At(s, q2)

\* rf'\bin\s+{scale_word}s?\b'  -- "in millions"
ScalePattern3(s, w) ==
  \E p \in Occurrences(s, w) :
    /\ \E e \in PluralEnds(s, p, w) : AtWordBoundary(s, e)
    /\ \E q \in SpaceStarts(s, p) :
         /\ StartsAt(s, q - 2, <<"i", "n">>)
         /\ AtWordBoundary(s, q - 2)

\* rf'\({scale_word}s?\)'  -- "(millions)"
ScalePattern4(s, w) ==
  \E p \in Occurrences(s, w) :
    /\ StartsAt(s, p - 1, <<"(">>)
    /\ \E e \in PluralEnds(s, p, w) : StartsAt(s, e, <<")">>)

\* rf'{scale_word}s?\s+of\s+(?:dollars?|pounds?)'  -- "millions of dollars"
ScalePattern5(s, w) ==
  \E p \in Occurrences(s, w) :
    \E e \in PluralEnds(s, p, w) :
      \E q \in SpaceEnds(s, e) :
        /\ StartsAt(s, q, <<"o", "f">>)
        /\ \E q2 \in SpaceEnds(s, q + 2) : Currency2At(s, q2)

\* patterns = [...]: for each of the five, whether re.search finds it in s
\* (none does where the scale word does not occur at all)
ScalePatterns(s, number_str, scale_word) ==
  IF Occurrences(s, scale_word) = {}
  THEN <<FALSE, FALSE, FALSE, FALSE, FALSE>>
  ELSE << ScalePattern1(s, number_str, scale_word),
          ScalePattern2(s, scale_word),
          ScalePattern3(s, scale_word),
          ScalePattern4(s, scale_word),
          ScalePattern5(s, scale_word) >>

\* rf'\b{re.escape(scale_word)}s?\b' of extract_entities_with_spacy, as a
\* condition
EntityScalePattern(s, w) ==
  \E p \in Occurrences(s, w) :
    /\ AtWordBoundary(s, p)
    /\ \E e \in PluralEnds(s, p, w) : AtWordBoundary(s, e)

\* rf'{re.escape(number_str)}\s*([KMBT])\b'
abbrev_pattern(number_str) ==
  RSeq(<<RStr(number_str), RStar(RSpace), RSet({"K", "M", "B", "T"}), RWordB>>)

\* ------------------------------------------------------------ pure helpers

\* One result tuple (value, original_string, start_index, end_index)
SciTuple(value, text, span) ==
  [value |-> value, orig |-> Slice(text, span[1], span[2]),
   start |-> span[1], end |-> span[2]]

\* The body of the sci_pattern loop for one match: <<>> when the try block
\* raises (10 ** exponent too large to convert), else one tuple
SciMatch(text, span) ==
  LET g        == Slice(text, span[1], span[2])
      k        == CHOOSE i \in 1..Len(g) : g[i] \in {"e", "E"}
      base     == ParseFloat(SubSeq(g, 1, k - 1))
      exponent == ParseInt(SubSeq(g, k + 1, Len(g)))
  IN IF exponent > FLOAT_MAX_10_EXP THEN <<>>
     ELSE <<SciTuple(DecMul(base, Dec(1, exponent)), text, span)>>

\* The power notation guard: if exponent <= 1000
PowerWithinLimit(exponent) == exponent <= POWER_EXPONENT_LIMIT

\* The body of the power_pattern loop for one match
PowerMatch(text, span) ==
  LET g        == Slice(text, span[1], span[2])
      k        == IndexOf(g, "^")
      base     == ParseFloat(SubSeq(g, 1, k - 1))
      exponent == ParseInt(SubSeq(g, k + 1, Len(g)))
  IN IF ~PowerWithinLimit(exponent) THEN <<>>
     ELSE LET value == FloatPow(base, exponent)
          IN IF IsInf(value) THEN <<>>  \* OverflowError
             ELSE <<SciTuple(value, text, span)>>

RECURSIVE SciLoop(_, _), PowerLoop(_, _)
SciLoop(text, spans) ==
  IF spans = <<>> THEN <<>>
  ELSE SciMatch(text, Head(spans)) \o SciLoop(text, Tail(spans))

PowerLoop(text, spans) ==
  IF spans = <<>> THEN <<>>
  ELSE PowerMatch(text, Head(spans)) \o PowerLoop(text, Tail(spans))

\* parse_scientific_notation(text)
parse_scientific_notation(text) ==
  SciLoop(text, FindIter(sci_pattern, text))
  \o PowerLoop(text, FindIter(power_pattern, text))

\* The overlap test with touching spans taken for overlapping ones
SpanOverlap_touching(number_pos, number_end, se) ==
  ~(number_end < se[1] \/ number_pos > se[2])

\* The overlap test of the literal loop against one used span <<s, e>>
SpanOverlap(number_pos, number_end, se) ==
  ~(number_end <= se[1] \/ number_pos >= se[2])

\* The for/break loop over used_spans
HasOverlap(number_pos, number_end, spans) ==
  \E i \in 1..Len(spans) : SpanOverlap(number_pos, number_end, spans[i])

\* number_str.replace('$', '').replace(',', '') ... .replace('%', ''), float,
\* and the percent division
BaseNumber(number_str, is_percent) ==
  LET cleaned == RemoveChar(RemoveChar(number_str, "$"), ",")
      base    == ParseFloat(RemoveChar(cleaned, "%"))
  IN IF is_percent THEN DecMul(base, Dec(1, -2)) ELSE base

\* The comparison letting an equal scale value replace the current one
ScaleBeats_orEqual(scale_value, multiplier) == ~DecLess(scale_value, multiplier)

\* if scale_value > multiplier
ScaleBeats(scale_value, multiplier) == DecLess(multiplier, scale_value)

\* The inner "for pattern in patterns" loop for one lexicon entry, from its
\* k-th pattern on
RECURSIVE PatternLoop(_, _, _, _, _)
PatternLoop(patterns, k, entry, multiplier, found_scale) ==
  IF k > Len(patterns) THEN <<multiplier, found_scale>>
  ELSE IF patterns[k] /\ ScaleBeats(entry.value, multiplier)
       THEN PatternLoop(patterns, k + 1, entry, entry.value, entry.word)
       ELSE PatternLoop(patterns, k + 1, entry, multiplier, found_scale)

\* The pair <<multiplier, found_scale>> before the lexicon loop
NoScale == <<Dec(1, 0), <<>> >>

\* The lexicon loop "for scale_word, scale_value in SCALE_MULTIPLIERS.items()"
\* run over the first n entries: the pairs <<multiplier, found_scale>> before
\* the loop and after each of its turns
RECURSIVE ScaleTrace(_, _, _)
ScaleTrace(number_str, context, n) ==
  IF n = 0 THEN <<NoScale>>
  ELSE LET before == ScaleTrace(number_str, context, n - 1)
           entry  == SCALE_MULTIPLIERS[n]
           acc    == before[n]
       IN Append(before,
                 PatternLoop(ScalePatterns(context, number_str, entry.word), 1,
                             entry, acc[1], acc[2]))

\* The pair <<multiplier, found_scale>> the whole lexicon loop ends with
ScaleLoop(number_str, context) ==
  ScaleTrace(number_str, context, Len(SCALE_MULTIPLIERS))[Len(SCALE_MULTIPLIERS) + 1]

\* Decimal digits of a non-negative int
RECURSIVE IntDigits(_)
IntDigits(n) ==
  IF n < 10 THEN <<ToString(n)>> ELSE IntDigits(n \div 10) \o <<ToString(n % 10)>>

\* Thousands separators, from the right
RECURSIVE Grouped(_)
Grouped(ds) ==
  IF Len(ds) <= 3 THEN ds
  ELSE Grouped(SubSeq(ds, 1, Len(ds) - 3)) \o <<",">> \o SubSeq(ds, Len(ds) - 2, Len(ds))

\* f"{multiplier:,.0f}" for an integral multiplier
FormatMultiplier(d) ==
  Grouped(IntDigits(d.m) \o [i \in 1..d.e |-> "0"])

\* f"{number_str} (scaled by {found_scale}: x{multiplier:,.0f})" or number_str
ContextInfo(number_str, found_scale, multiplier) ==
  IF found_scale # <<>>
  THEN number_str \o <<" ", "(", "s", "c", "a", "l", "e", "d", " ", "b", "y", " ">> \o found_scale \o <<":", " ", "x">>
       \o FormatMultiplier(multiplier) \o <<")">>
  ELSE number_str

\* The abbreviation block: the pair <<multiplier, found_scale>> after it
Abbreviation(number_str, base_number, multiplier, found_scale, window) ==
  IF DecLess(base_number, Dec(1000, 0)) /\ multiplier = Dec(1, 0)
  THEN LET m == Search(abbrev_pattern(number_str), window, TRUE)
       IN IF m # NoMatch
          THEN LET abbrev == LowerChar(window[m[2]])
               IN IF abbrev \in DOMAIN abbrev_multipliers
                  THEN <<abbrev_multipliers[abbrev], <<UpperChar(abbrev)>> >>
                  ELSE <<multiplier, found_scale>>
          ELSE <<multiplier, found_scale>>
  ELSE <<multiplier, found_scale>>

\* The insertion that puts a new element before the elements equal to it
RECURSIVE InsertDesc_beforeEquals(_, _)
InsertDesc_beforeEquals(sorted, x) ==
  IF sorted = <<>> THEN <<x>>
  ELSE IF ~DecLess(x.value, Head(sorted).value) THEN <<x>> \o sorted
  ELSE <<Head(sorted)>> \o InsertDesc_beforeEquals(Tail(sorted), x)

\* sorted(..., key=lambda x: x[0], reverse=True): where a new element goes
\* in an already sorted prefix (after every element that is not smaller)
RECURSIVE InsertDesc(_, _)
InsertDesc(sorted, x) ==
  IF sorted = <<>> THEN <<x>>
  ELSE IF DecLess(Head(sorted).value, x.value) THEN <<x>> \o sorted
  ELSE <<Head(sorted)>> \o InsertDesc(Tail(sorted), x)

RECURSIVE SortedDesc(_)
SortedDesc(xs) ==
  IF xs = <<>> THEN <<>>
  ELSE InsertDesc(SortedDesc(SubSeq(xs, 1, Len(xs) - 1)), xs[Len(xs)])

\* sorted_numbers[:10]
TopSlice(xs) == SubSeq(xs, 1, Min2(TOP_N, Len(xs)))

\* max(numbers): the first largest element
RECURSIVE MaxOf(_)
MaxOf(xs) ==
  IF Len(xs) = 1 THEN xs[1]
  ELSE LET r == MaxOf(SubSeq(xs, 1, Len(xs) - 1))
       IN IF DecLess(r, xs[Len(xs)]) THEN xs[Len(xs)] ELSE r

\* The loop of extract_numbers_from_text over re.findall's matches
RECURSIVE PlainLoop(_, _)
PlainLoop(text, spans) ==
  IF spans = <<>> THEN <<>>
  ELSE LET match   == Slice(text, Head(spans)[1], Head(spans)[2])
           cleaned == RemoveChar(RemoveChar(RemoveChar(match, "$"), ","), "%")
       IN <<ParseFloat(cleaned)>> \o PlainLoop(text, Tail(spans))

\* extract_numbers_from_text(text)
extract_numbers_from_text(text) == PlainLoop(text, FindIter(number_pattern, text))

\* The lexicon loop of extract_entities_with_spacy
RECURSIVE EntityScaleLoop(_, _, _, _)
EntityScaleLoop(k, context, multiplier, found_scale) ==
  IF k > Len(SCALE_MULTIPLIERS) THEN <<multiplier, found_scale>>
  ELSE LET entry == SCALE_MULTIPLIERS[k]
       IN IF EntityScalePattern(context, entry.word)
             /\ ScaleBeats(entry.value, multiplier)
          THEN EntityScaleLoop(k + 1, context, entry.value, entry.word)
          ELSE EntityScaleLoop(k + 1, context, multiplier, found_scale)

\* The body of the "for ent in doc.ents" loop: <<>> on continue, else one
\* triple (value, context_info, (start, end))
EntityBody(text, ent) ==
  IF ent.label \notin ENTITY_LABELS THEN <<>>
  ELSE LET ent_text == Slice(text, ent.start_char, ent.end_char)
           m        == Search(num_re, ent_text, FALSE)
       IN IF m = NoMatch THEN <<>>
          ELSE LET number_str  == Slice(ent_text, m[1], m[2])
                   is_percent  == Contains(number_str, "%") \/ ent.label = "PERCENT"
                   base_number == BaseNumber(number_str, is_percent)
                   cstart      == Max2(0, ent.start_char - ENT_WINDOW_BEFORE)
                   cend        == Min2(Len(text), ent.end_char + ENT_WINDOW_AFTER)
                   context     == Lower(Slice(text, cstart, cend))
                   sc          == EntityScaleLoop(1, context, Dec(1, 0), <<>>)
               IN << [value |-> DecMul(base_number, sc[1]),
                      ctx   |-> ContextInfo(number_str, sc[2], sc[1]),
                      span  |-> <<ent.start_char, ent.end_char>>] >>

RECURSIVE EntityLoop(_, _)
EntityLoop(text, ents) ==
  IF ents = <<>> THEN <<>>
  ELSE EntityBody(text, Head(ents)) \o EntityLoop(text, Tail(ents))

\* extract_entities_with_spacy handing back what it had when it raised
extract_entities_with_spacy_partial(rec, text) ==
  IF rec.raise_at >= 0
  THEN [raised |-> TRUE, results |-> EntityLoop(text, SubSeq(rec.ents, 1, rec.raise_at))]
  ELSE [raised |-> FALSE, results |-> EntityLoop(text, rec.ents)]

\* extract_entities_with_spacy(nlp, text) for a recognizer that answers
\* rec.ents and raises, if rec.raise_at >= 0, once that many entities have
\* been handed out: whether the call raised, and the list it returned (none
\* when it raised: the caller's loop over the results is never entered)
extract_entities_with_spacy(rec, text) ==
  IF rec.raise_at >= 0
  THEN [raised |-> TRUE, results |-> <<>>]
  ELSE [raised |-> FALSE, results |-> EntityLoop(text, rec.ents)]

\* ------------------------------------------------------------ state

VARIABLES
  prog,                  \* "nlp": pdf_max_finder_nlp.py, "plain": pdf_max_finder.py
  entry,                 \* "main": the script is run; "call": the extractor is called
  env,                   \* the run's surroundings: argv, the file, the PDF, spaCy
  pc,                    \* the statement the run is at
  text,                  \* text
  numbers_with_context,  \* list of (value, context) pairs
  used_spans,            \* list of (start, end)
  spacy_outcome,         \* what became of the entity pass
  matches,               \* the matches re.finditer(number_pattern, text) yields
  mi,                    \* index of the match the literal loop is at
  cur,                   \* the literal loop's locals for the current match
  numbers,               \* extract_numbers_from_text's result
  result,                \* what find_largest_number[_nlp] returns
  out                    \* what the process has shown: status, prints, warnings

vars == <<prog, entry, env, pc, text, numbers_with_context, used_spans,
          spacy_outcome, matches, mi, cur, numbers, result, out>>

\* None
None == [none |-> TRUE]

NoCur == [number_str |-> <<>>, number_pos |-> 0, number_end |-> 0,
          context_start |-> 0, context_end |-> 0, base_number |-> Zero,
          multiplier |-> Dec(1, 0), found_scale |-> <<>>]

NoResult == [max_number |-> None, max_context |-> None, top_10 |-> <<>>,
             sorted_numbers |-> <<>>]

\* status -1: still running
NoOut == [status |-> -1, largest |-> FALSE, warned |-> FALSE, opened |-> FALSE,
          extracted |-> FALSE, usage |-> FALSE]

\* text += page.extract_text() [+ "\n"] over the pages
RECURSIVE JoinPages(_, _)
JoinPages(pages, sep) ==
  IF pages = <<>> THEN <<>>
  ELSE Head(pages) \o sep \o JoinPages(Tail(pages), sep)

\* ------------------------------------------------------------ main

\* main(): the usage check and the Path(pdf_path).exists() check
MainStart ==
  /\ pc = "main"
  /\ IF ~env.argv_given
     THEN /\ out' = [out EXCEPT !.usage = TRUE, !.status = 1]
          /\ pc' = "exit"
     ELSE IF ~env.file_exists
     THEN /\ out' = [out EXCEPT !.status = 1]
          /\ pc' = "exit"
     ELSE /\ out' = out
          /\ pc' = "read_pdf"
  /\ UNCHANGED <<prog, entry, env, text, numbers_with_context, used_spans,
                 spacy_outcome, matches, mi, cur, numbers, result>>

\* extract_text_from_pdf(pdf_path): any exception ends the process
ReadPdf ==
  /\ pc = "read_pdf"
  /\ IF ~env.pdf_readable
     THEN /\ out' = [out EXCEPT !.opened = TRUE, !.status = 1]
          /\ text' = text
          /\ pc' = "exit"
     ELSE /\ out' = [out EXCEPT !.opened = TRUE]
          /\ text' = JoinPages(env.pages, IF prog = "nlp" THEN <<"\n">> ELSE <<>>)
          /\ pc' = "check_text"
  /\ UNCHANGED <<prog, entry, env, numbers_with_context, used_spans,
                 spacy_outcome, matches, mi, cur, numbers, result>>

\* if not text: warning, return None
CheckText ==
  /\ pc = "check_text"
  /\ IF text = <<>>
     THEN /\ out' = [out EXCEPT !.warned = TRUE]
          /\ pc' = "report"
     ELSE /\ out' = [out EXCEPT !.extracted = TRUE]
          /\ pc' = IF prog = "nlp" THEN "sci" ELSE "plain_extract"
  /\ UNCHANGED <<prog, entry, env, text, numbers_with_context, used_spans,
                 spacy_outcome, matches, mi, cur, numbers, result>>

\* ------------------------------------------------------------ extract_numbers_with_context

RECURSIVE PairsOf(_), SpansOf(_)
PairsOf(rs) ==
  IF rs = <<>> THEN <<>>
  ELSE <<[value |-> Head(rs).value, ctx |-> Head(rs).orig]>> \o PairsOf(Tail(rs))

SpansOf(rs) ==
  IF rs = <<>> THEN <<>>
  ELSE << <<Head(rs).start, Head(rs).end>> >> \o SpansOf(Tail(rs))

\* sci_numbers = parse_scientific_notation(text) and the loop that records
\* each value and claims its span
ParseSci ==
  /\ pc = "sci"
  /\ LET sci_numbers == parse_scientific_notation(text)
     IN /\ numbers_with_context' = PairsOf(sci_numbers)
        /\ used_spans' = SpansOf(sci_numbers)
  /\ pc' = "spacy"
  /\ UNCHANGED <<prog, entry, env, text, spacy_outcome, matches, mi, cur,
                 numbers, result, out>>

\* What the recognizer may report: at most MaxEnts entities, each a span of
\* the first MaxEntEnd characters, in any order, overlapping or not
MaxEnts == 1

MaxEntEnd == 2

EntSpans(t) ==
  {<<a, b>> \in (0..Len(t)) \X (0..Len(t)) : a < b /\ b <= MaxEntEnd}

\* Labels the recognizer may give (DATE stands for every label the code skips)
EntLabels == {"MONEY", "DATE"}

Entities(t) ==
  {[label |-> l, start_char |-> sp[1], end_char |-> sp[2]] :
     l \in EntLabels, sp \in EntSpans(t)}

RECURSIVE EntLists(_, _)
EntLists(t, n) ==
  IF n = 0 THEN {<<>>}
  ELSE LET shorter == EntLists(t, n - 1)
       IN shorter \cup {Append(l, e) : l \in {x \in shorter : Len(x) = n - 1},
                                        e \in Entities(t)}

\* What the recognizer may do on text t: answer a list of entities, or raise
\* after handing out raise_at of them (-1: it does not raise)
Recognitions(t) ==
  UNION {{[ents |-> l, raise_at |-> k] : k \in -1..Len(l)} : l \in EntLists(t, MaxEnts)}

RECURSIVE EntPairs(_), EntSpansOf(_)
EntPairs(rs) ==
  IF rs = <<>> THEN <<>>
  ELSE <<[value |-> Head(rs).value, ctx |-> Head(rs).ctx]>> \o EntPairs(Tail(rs))

EntSpansOf(rs) ==
  IF rs = <<>> THEN <<>>
  ELSE <<Head(rs).span>> \o EntSpansOf(Tail(rs))

\* if _SPACY_AVAILABLE and nlp is not None: try ... except Exception: pass
RunSpacy ==
  /\ pc = "spacy"
  /\ IF env.spacy # "model"
     THEN /\ spacy_outcome' = "skipped"
          /\ UNCHANGED <<numbers_with_context, used_spans>>
     ELSE \E rec \in Recognitions(text) :
            LET r == extract_entities_with_spacy(rec, text)
            IN /\ spacy_outcome' = IF r.raised THEN "raised" ELSE "ok"
               /\ numbers_with_context' = numbers_with_context \o EntPairs(r.results)
               /\ used_spans' = used_spans \o EntSpansOf(r.results)
  /\ matches' = FindIter(number_pattern, text)
  /\ mi' = 1
  /\ pc' = "lit"
  /\ UNCHANGED <<prog, entry, env, text, cur, numbers, result, out>>

\* The head of the literal loop: the end of the loop (return; under main
\* the locals of the call are gone with it, a direct call's stay as the call
\* left them), a match that overlaps a used span (continue), or the locals
\* of a match that is kept
NextLiteral ==
  /\ pc = "lit"
  /\ IF mi > Len(matches)
     THEN IF entry = "main"
          THEN /\ pc' = "rank"
               /\ used_spans' = <<>>
               /\ matches' = <<>>
               /\ mi' = 0
               /\ cur' = NoCur
          ELSE /\ pc' = "returned"
               /\ UNCHANGED <<used_spans, matches, mi, cur>>
     ELSE LET number_pos == matches[mi][1]
              number_end == matches[mi][2]
              number_str == Slice(text, number_pos, number_end)
          IN IF HasOverlap(number_pos, number_end, used_spans)
             THEN /\ mi' = mi + 1
                  /\ pc' = "lit"
                  /\ UNCHANGED <<used_spans, matches, cur>>
             ELSE /\ cur' = [number_str    |-> number_str,
                             number_pos    |-> number_pos,
                             number_end    |-> number_end,
                             context_start |-> Max2(0, number_pos - CONTEXT_WINDOW),
                             context_end   |-> Min2(Len(text), number_end + CONTEXT_WINDOW),
                             base_number   |-> BaseNumber(number_str, Contains(number_str, "%")),
                             multiplier    |-> Dec(1, 0),
                             found_scale   |-> <<>>]
                  /\ pc' = "scale"
                  /\ UNCHANGED <<used_spans, matches, mi>>
  /\ UNCHANGED <<prog, entry, env, text, numbers_with_context,
                 spacy_outcome, numbers, result, out>>

\* context = text[context_start:context_end].lower()
Context == Lower(Slice(text, cur.context_start, cur.context_end))

\* The lexicon loop: multiplier and found_scale as it leaves them
ResolveScale ==
  /\ pc = "scale"
  /\ LET sc == ScaleLoop(cur.number_str, Context)
     IN cur' = [cur EXCEPT !.multiplier = sc[1], !.found_scale = sc[2]]
  /\ pc' = "abbrev"
  /\ UNCHANGED <<prog, entry, env, text, numbers_with_context, used_spans,
                 spacy_outcome, matches, mi, numbers, result, out>>

\* After the lexicon loop: the abbreviation block, the span is claimed, the
\* value and its context are recorded
FinishLiteral ==
  /\ pc = "abbrev"
  /\ LET ab == Abbreviation(cur.number_str, cur.base_number, cur.multiplier,
                            cur.found_scale,
                            Slice(text, cur.context_start, cur.context_end))
     IN /\ used_spans' = Append(used_spans, <<cur.number_pos, cur.number_end>>)
        /\ numbers_with_context' =
             Append(numbers_with_context,
                    [value |-> DecMul(cur.base_number, ab[1]),
                     ctx   |-> ContextInfo(cur.number_str, ab[2], ab[1])])
        /\ cur' = [cur EXCEPT !.multiplier = ab[1], !.found_scale = ab[2]]
  /\ mi' = mi + 1
  /\ pc' = "lit"
  /\ UNCHANGED <<prog, entry, env, text, spacy_outcome, matches, numbers,
                 result, out>>

\* ------------------------------------------------------------ the rest of find_largest_number[_nlp]

\* find_largest_number_nlp after the extraction: the empty check, the sort,
\* the maximum and the top ten
Rank ==
  /\ pc = "rank"
  /\ IF numbers_with_context = <<>>
     THEN /\ out' = [out EXCEPT !.warned = TRUE]
          /\ result' = NoResult
     ELSE LET sorted_numbers == SortedDesc(numbers_with_context)
          IN /\ result' = [max_number     |-> sorted_numbers[1].value,
                           max_context    |-> sorted_numbers[1].ctx,
                           top_10         |-> TopSlice(sorted_numbers),
                           sorted_numbers |-> sorted_numbers]
             /\ out' = out
  /\ pc' = "report"
  /\ UNCHANGED <<prog, entry, env, text, numbers_with_context, used_spans,
                 spacy_outcome, matches, mi, cur, numbers>>

\* numbers = extract_numbers_from_text(text)
ExtractPlain ==
  /\ pc = "plain_extract"
  /\ numbers' = extract_numbers_from_text(text)
  /\ pc' = IF entry = "main" THEN "plain_max" ELSE "returned"
  /\ UNCHANGED <<prog, entry, env, text, numbers_with_context, used_spans,
                 spacy_outcome, matches, mi, cur, result, out>>

\* find_largest_number after the extraction: the empty check and max()
PlainMax ==
  /\ pc = "plain_max"
  /\ IF numbers = <<>>
     THEN /\ out' = [out EXCEPT !.warned = TRUE]
          /\ result' = NoResult
     ELSE /\ result' = [NoResult EXCEPT !.max_number = MaxOf(numbers)]
          /\ out' = out
  /\ pc' = "report"
  /\ UNCHANGED <<prog, entry, env, text, numbers_with_context, used_spans,
                 spacy_outcome, matches, mi, cur, numbers>>

\* The end of main() that leaves with status 0 whatever was found
Report_alwaysZero ==
  /\ pc = "report"
  /\ out' = [out EXCEPT !.largest = (result.max_number # None), !.status = 0]
  /\ pc' = "exit"
  /\ UNCHANGED <<prog, entry, env, text, numbers_with_context, used_spans,
                 spacy_outcome, matches, mi, cur, numbers, result>>

\* main() after the call: print the largest number, or sys.exit(1)
Report ==
  /\ pc = "report"
  /\ IF result.max_number # None
     THEN out' = [out EXCEPT !.largest = TRUE, !.status = 0]
     ELSE out' = [out EXCEPT !.status = 1]
  /\ pc' = "exit"
  /\ UNCHANGED <<prog, entry, env, text, numbers_with_context, used_spans,
                 spacy_outcome, matches, mi, cur, numbers, result>>

Next ==
  \/ MainStart
  \/ ReadPdf
  \/ CheckText
  \/ ParseSci
  \/ RunSpacy
  \/ NextLiteral
  \/ ResolveScale
  \/ FinishLiteral
  \/ Rank
  \/ ExtractPlain
  \/ PlainMax
  \/ Report

\* ------------------------------------------------------------ initial states

\* The texts made of at most n of the pieces, one after the other
RECURSIVE TextsUpTo(_, _)
TextsUpTo(pieces, n) ==
  IF n = 0 THEN {<<>>}
  ELSE LET shorter == TextsUpTo(pieces, n - 1)
       IN shorter \cup {t \o q : t \in shorter, q \in pieces}

RECURSIVE SeqsUpTo(_, _)
SeqsUpTo(S, n) ==
  IF n = 0 THEN {<<>>}
  ELSE LET shorter == SeqsUpTo(S, n - 1)
       IN shorter \cup {Append(t, x) : t \in shorter, x \in S}

SpacyStates == {"unavailable", "nomodel", "model"}

\* The variables every run starts with
Fresh ==
  /\ numbers_with_context = <<>>
  /\ used_spans = <<>>
  /\ spacy_outcome = "notrun"
  /\ matches = <<>>
  /\ mi = 0
  /\ cur = NoCur
  /\ numbers = <<>>
  /\ result = NoResult
  /\ out = NoOut

\* The script is run: python <script> [<path_to_pdf>]
MainRun(pageTexts, maxPages) ==
  /\ entry = "main"
  /\ prog \in {"nlp", "plain"}
  /\ env \in [argv_given : BOOLEAN, file_exists : BOOLEAN, pdf_readable : BOOLEAN,
              pages : SeqsUpTo(pageTexts, maxPages), spacy : SpacyStates]
  /\ pc = "main"
  /\ text = <<>>
  /\ Fresh

\* extract_numbers_with_context(text, nlp=...) is called on one of the texts
CallNlp(texts, spacyStates) ==
  /\ entry = "call"
  /\ prog = "nlp"
  /\ env \in [argv_given : {TRUE}, file_exists : {TRUE}, pdf_readable : {TRUE},
              pages : {<<>>}, spacy : spacyStates]
  /\ pc = "sci"
  /\ text \in texts
  /\ Fresh

\* extract_numbers_from_text(text) is called on one of the texts
CallPlain(texts) ==
  /\ entry = "call"
  /\ prog = "plain"
  /\ env \in [argv_given : {TRUE}, file_exists : {TRUE}, pdf_readable : {TRUE},
              pages : {<<>>}, spacy : {"unavailable"}]
  /\ pc = "plain_extract"
  /\ text \in texts
  /\ Fresh

\* Pages of the documents the script is run on
MaxPages == 2

MainPageTexts == {<<>>,
                  <<"x">>,
                  <<"7">>}

InitMain == MainRun(MainPageTexts, MaxPages)

\* The script run on documents of a few short pages
SpecMain == InitMain /\ [][Next]_vars

\* The script always takes its next step (one thread, no waiting): weak
\* fairness WF_vars(Next), with ENABLED <<Next>>_vars written out, a step
\* being possible exactly until the process has exited
FairMain == SpecMain /\ ([]<><<Next>>_vars \/ <>[](pc = "exit"))

\* A run of the script on a one-page document, part of every family below
SmallRun == MainRun({<<"7">>}, 1)

\* Pieces of the texts with scientific and power literals
MaxPieces == 2

LiteralPieces == {<<"2", "^", "2", "0", "0", "0">>,
                  <<"2", "^", "1", "0">>,
                  <<"1", ".", "2", "3", "e", "6">>,
                  <<" ", "d", "o", "l", "l", "a", "r", "s">>,
                  <<"-", "3">>}

LiteralTexts == TextsUpTo(LiteralPieces, MaxPieces)

\* Pieces of the texts the recognizer is run on
EntityPieces == {<<"2", "^", "1", "0">>,
                 <<" ", "m">>,
                 <<"-", "3">>}

EntityTexts == TextsUpTo(EntityPieces, MaxPieces)

InitLiterals ==
  \/ CallNlp(LiteralTexts, {"unavailable", "nomodel"})
  \/ CallNlp(EntityTexts, {"model"})
  \/ CallPlain(LiteralTexts)
  \/ SmallRun

\* The extractors called on texts with scientific and power literals
SpecLiterals == InitLiterals /\ [][Next]_vars

\* Texts with one number and scale words after it
ScalePrefixes == {<<>>,
                  <<"r", "e", "v", "e", "n", "u", "e", " ", "o", "f", " ">>}

ScaleNumbers == {<<"3", ".", "5">>,
                 <<"$", "3">>,
                 <<"-", "3">>,
                 <<"5", "0", "%">>}

ScaleWords == {<<" ", "m", "i", "l", "l", "i", "o", "n">>,
               <<" ", "d", "o", "l", "l", "a", "r", "s">>,
               <<" ", "b", "n">>,
               <<" ", "i", "n", " ", "m", "i", "l", "l", "i", "o", "n", "s">>,
               <<" ", "k">>}

ScaleTexts ==
  {p \o n \o t : p \in ScalePrefixes, n \in ScaleNumbers,
                 t \in TextsUpTo(ScaleWords, MaxPieces)}

InitScale ==
  \/ CallNlp(ScaleTexts, {"nomodel"})
  \/ CallPlain(ScaleTexts)
  \/ SmallRun

\* The extractors called on texts with scale words
SpecScale == InitScale /\ [][Next]_vars

\* Texts with numbers, abbreviation letters and percent signs
SuffixPrefixes == {<<>>,
                   <<"5", " ">>}

SuffixNumbers == {<<"1", "5", "0">>,
                  <<"1", "5", "0", "0">>,
                  <<"1", "5">>,
                  <<"5", "0", "%">>}

SuffixTails == {<<"K">>,
                <<" ">>,
                <<"m">>,
                <<" ", "m", "i", "l", "l", "i", "o", "n">>,
                <<"x">>}

SuffixTexts ==
  {p \o n \o t : p \in SuffixPrefixes, n \in SuffixNumbers,
                 t \in TextsUpTo(SuffixTails, MaxPieces)}

InitSuffix ==
  \/ CallNlp(SuffixTexts, {"nomodel"})
  \/ CallPlain(SuffixTexts)
  \/ SmallRun

\* The extractors called on texts with abbreviation letters and percents
SpecSuffix == InitSuffix /\ [][Next]_vars

\* Candidates for the ranking: literals by their text, two of them equal in
\* value
RankStrings == {<<"5">>,
                <<"1", "0", "0">>,
                <<"3">>,
                <<"1", "0", "0", "0", "0", "0", "0">>,
                <<"5", ".", "0">>}

MaxShort == 4

MaxRepeat == 6

\* xs repeated k times
RECURSIVE RepeatSeq(_, _)
RepeatSeq(xs, k) == IF k = 0 THEN <<>> ELSE xs \o RepeatSeq(xs, k - 1)

\* Lists of candidates: every short one, and pairs repeated up to more than
\* the ten the top list keeps
RankLists ==
  SeqsUpTo(RankStrings, MaxShort)
  \cup {RepeatSeq(<<a, b>>, k) : a \in RankStrings, b \in RankStrings, k \in 1..MaxRepeat}

\* The one-page document whose lines are the literals of ls
RECURSIVE PageOf(_)
PageOf(ls) ==
  IF ls = <<>> THEN <<>>
  ELSE IF Len(ls) = 1 THEN ls[1]
  ELSE ls[1] \o <<" ">> \o PageOf(Tail(ls))

\* What extract_numbers_with_context returns for PageOf(ls)
RECURSIVE CandidatesOf(_)
CandidatesOf(ls) ==
  IF ls = <<>> THEN <<>>
  ELSE << [value |-> ParseFloat(ls[1]), ctx |-> ls[1]] >> \o CandidatesOf(Tail(ls))

\* find_largest_number_nlp as extract_numbers_with_context has just returned
\* the candidates of a one-page document (spaCy not installed)
AtRank(lists) ==
  \E ls \in lists :
    /\ entry = "main"
    /\ prog = "nlp"
    /\ env = [argv_given |-> TRUE, file_exists |-> TRUE, pdf_readable |-> TRUE,
              pages |-> <<PageOf(ls)>>, spacy |-> "unavailable"]
    /\ pc = "rank"
    /\ text = PageOf(ls) \o <<"\n">>
    /\ numbers_with_context = CandidatesOf(ls)
    /\ used_spans = <<>>
    /\ spacy_outcome = "skipped"
    /\ matches = <<>>
    /\ mi = 0
    /\ cur = NoCur
    /\ numbers = <<>>
    /\ result = NoResult
    /\ out = [NoOut EXCEPT !.opened = TRUE, !.extracted = TRUE]

\* The runs of the script on the documents of the short lists, from the start
RankRuns ==
  /\ entry = "main"
  /\ prog = "nlp"
  /\ env \in [argv_given : {TRUE}, file_exists : {TRUE}, pdf_readable : {TRUE},
              pages : {<<PageOf(ls)>> : ls \in SeqsUpTo(RankStrings, MaxShort - 2)},
              spacy : {"unavailable"}]
  /\ pc = "main"
  /\ text = <<>>
  /\ Fresh

InitRank ==
  \/ AtRank(RankLists)
  \/ RankRuns
  \/ SmallRun

\* The ranking of find_largest_number_nlp on lists of candidates
SpecRank == InitRank /\ [][Next]_vars

\* ------------------------------------------------------------ claims

\* a < d and c < b for the half-open spans ab = [a, b) and cd = [c, d)
Overlapping(ab, cd) == ab[1] < cd[2] /\ cd[1] < ab[2]

\* The call of extract_numbers_with_context has returned
NlpReturned == prog = "nlp" /\ entry = "call" /\ pc = "returned"

\* C1: no two entries of the sequence extract_numbers_with_context returns
\* come from overlapping spans of the text (every entry's span is in
\* used_spans, in the order of the entries)
C1_NoOverlappingSpans ==
  NlpReturned =>
    \A i \in 1..Len(used_spans) : \A j \in 1..Len(used_spans) :
      i < j => ~Overlapping(used_spans[i], used_spans[j])

\* C2: a power literal whose exponent exceeds 1000 contributes no candidate
\* at all ("2^2000" yields the empty result), one within the limit exactly
\* its value ("2^10" yields only 1024.0)
C2_PowerCap ==
  (NlpReturned /\ spacy_outcome = "skipped") =>
    /\ text = <<"2", "^", "2", "0", "0", "0">> => numbers_with_context = <<>>
    /\ text = <<"2", "^", "1", "0">> =>
         numbers_with_context = << [value |-> Dec(1024, 0), ctx |-> <<"2", "^", "1", "0">>] >>

\* The literal match the loop is at is dropped by this step: nothing is
\* recorded, no span is claimed, the loop moves on
LiteralDropped ==
  /\ numbers_with_context' = numbers_with_context
  /\ used_spans' = used_spans
  /\ mi' = mi + 1
  /\ pc' = "lit"

\* The literal match the loop is at is kept by this step
LiteralKept ==
  /\ pc' = "scale"
  /\ cur'.number_pos = matches[mi][1]
  /\ cur'.number_end = matches[mi][2]

\* A kept literal is recorded and its span claimed when its turn ends
LiteralRecorded ==
  /\ Len(numbers_with_context') = Len(numbers_with_context) + 1
  /\ used_spans' = Append(used_spans, <<cur.number_pos, cur.number_end>>)

C3_Step ==
  /\ (pc = "lit" /\ mi <= Len(matches)) =>
       LET claimed == \E i \in 1..Len(used_spans) : Overlapping(matches[mi], used_spans[i])
       IN IF claimed THEN LiteralDropped ELSE LiteralKept
  /\ pc = "abbrev" => LiteralRecorded

C3_Example ==
  (NlpReturned /\ spacy_outcome = "skipped" /\ text = <<"1", ".", "2", "3", "e", "6", " ", "d", "o", "l", "l", "a", "r", "s">>) =>
    numbers_with_context = << [value |-> Dec(123, 4), ctx |-> <<"1", ".", "2", "3", "e", "6">>] >>

\* C3: a literal match is dropped, recording nothing and claiming no span,
\* if and only if a span claimed before overlaps it; "1.23e6 dollars" yields
\* exactly one candidate, 1230000.0
C3_DroppedIffOverlap == [][C3_Step]_vars /\ [](C3_Example)

\* The spans in a list of spans
SpanSet(spans) == {spans[i] : i \in 1..Len(spans)}

\* Some literal match was dropped, and some was kept that starts where a
\* claimed span ends
C3_Witness ==
  /\ NlpReturned
  /\ \E i \in 1..Len(matches) : matches[i] \notin SpanSet(used_spans)
  /\ \E j \in 1..Len(matches) :
       /\ matches[j] \in SpanSet(used_spans)
       /\ \E sp \in SpanSet(used_spans) : sp[2] = matches[j][1]

\* What extract_numbers_with_context makes of the literal matches from the
\* k-th on when acc = <<values, spans>> is what it has so far
RECURSIVE LiteralsFrom(_, _, _, _)
LiteralsFrom(t, ms, k, acc) ==
  IF k > Len(ms) THEN acc
  ELSE LET a == ms[k][1]
           b == ms[k][2]
       IN IF \E i \in 1..Len(acc[2]) : Overlapping(ms[k], acc[2][i])
          THEN LiteralsFrom(t, ms, k + 1, acc)
          ELSE LET number_str == Slice(t, a, b)
                   lo   == Max2(0, a - CONTEXT_WINDOW)
                   hi   == Min2(Len(t), b + CONTEXT_WINDOW)
                   base == BaseNumber(number_str, Contains(number_str, "%"))
                   sc   == ScaleLoop(number_str, Lower(Slice(t, lo, hi)))
                   ab   == Abbreviation(number_str, base, sc[1], sc[2], Slice(t, lo, hi))
               IN LiteralsFrom(t, ms, k + 1,
                    << Append(acc[1], [value |-> DecMul(base, ab[1]),
                                       ctx   |-> ContextInfo(number_str, ab[2], ab[1])]),
                       Append(acc[2], ms[k]) >>)

\* The sequence for a text with no recognizer: the scientific and power
\* candidates, then the literal candidates
NoRecognizer(t) ==
  LET sci == parse_scientific_notation(t)
  IN LiteralsFrom(t, FindIter(number_pattern, t), 1, <<PairsOf(sci), SpansOf(sci)>>)

\* C9: when the recognizer is unavailable (spaCy not importable, no model
\* passed) or its call raises, extract_numbers_with_context returns, and
\* returns exactly the values and spans it has for the text with no recognizer
C9_FallBack ==
  (NlpReturned /\ spacy_outcome \in {"skipped", "raised"}) =>
    /\ numbers_with_context = NoRecognizer(text)[1]
    /\ used_spans = NoRecognizer(text)[2]

\* The recognizer raised on a text with numbers and the call returned
C9_Witness ==
  /\ NlpReturned
  /\ env.spacy = "model"
  /\ spacy_outcome = "raised"
  /\ numbers_with_context # <<>>

\* The lexicon entries (by position) with a pattern that matches the context
MatchingEntries(number_str, context) ==
  {k \in 1..Len(SCALE_MULTIPLIERS) :
     \E i \in 1..5 : ScalePatterns(context, number_str, SCALE_MULTIPLIERS[k].word)[i]}

\* The matching entries no other matching entry has a larger multiplier than
LargestEntries(number_str, context) ==
  UNION { {k \in M : \A j \in M : ~DecLess(SCALE_MULTIPLIERS[k].value,
                                            SCALE_MULTIPLIERS[j].value)} :
          M \in {MatchingEntries(number_str, context)} }

\* C4: the multiplier the lexicon loop leaves is the largest multiplier of the
\* entries with a matching pattern, 1.0 when none matches; the scale word is
\* the first entry in lexicon order among those with that multiplier; and the
\* running multiplier never decreases from one entry to the next
C4_LargestMultiplier ==
  pc = "abbrev" =>
    \A L \in {LargestEntries(cur.number_str, Context)} :
    \A tr \in {ScaleTrace(cur.number_str, Context, Len(SCALE_MULTIPLIERS))} :
       /\ tr[Len(tr)] = <<cur.multiplier, cur.found_scale>>
       /\ \A n \in 1..(Len(tr) - 1) : ~DecLess(tr[n + 1][1], tr[n][1])
       /\ IF L = {}
          THEN cur.multiplier = Dec(1, 0) /\ cur.found_scale = <<>>
          ELSE LET first == CHOOSE k \in L : \A j \in L : k <= j
               IN /\ cur.multiplier = SCALE_MULTIPLIERS[first].value
                  /\ cur.found_scale = SCALE_MULTIPLIERS[first].word

\* The loop has left a multiplier that two matching entries share, past a
\* matching entry with a smaller one
C4_Witness ==
  /\ pc = "abbrev"
  /\ Cardinality(LargestEntries(cur.number_str, Context)) >= 2
  /\ MatchingEntries(cur.number_str, Context) # LargestEntries(cur.number_str, Context)
  /\ cur.multiplier = Dec(1, 6)

\* The literal the loop has recorded last, if any, is described by cur
LiteralRecordedLast == prog = "nlp" /\ pc = "lit" /\ cur # NoCur

\* The lexicon entries whose word follows offset p of t after whitespace
WordsAfter(t, p) ==
  {k \in 1..Len(SCALE_MULTIPLIERS) :
     \E q \in SpaceEnds(t, p) :
       /\ StartsAt(Lower(t), q, SCALE_MULTIPLIERS[k].word)
       /\ AtWordBoundary(t, q + Len(SCALE_MULTIPLIERS[k].word))}

\* "<rawText> (scaled by <word>: x<multiplier>)"
ScaledLabel(rawText, word, multiplier) ==
  rawText \o <<" ", "(", "s", "c", "a", "l", "e", "d", " ", "b", "y", " ">> \o word \o <<":", " ", "x">>
  \o FormatMultiplier(multiplier) \o <<")">>

\* C10: an accepted literal followed by whitespace and a lexicon word, whatever
\* its form ("$3.5", "-3", a percent), has a multiplier at least that word's
\* and the label "<rawText> (scaled by <word>: x<multiplier>)"
C10_FollowingScaleWord ==
  LiteralRecordedLast =>
    \A k \in WordsAfter(text, cur.number_end) :
      /\ ~DecLess(cur.multiplier, SCALE_MULTIPLIERS[k].value)
      /\ numbers_with_context[Len(numbers_with_context)].ctx =
           ScaledLabel(cur.number_str, cur.found_scale, cur.multiplier)

\* The text from offset p on is optional whitespace and then the letter c,
\* in either case
LetterFollows(t, p, c) ==
  \E q \in p..(Len(t) - 1) :
    /\ \A i \in (p + 1)..q : t[i] \in Whitespace
    /\ UpperChar(t[q + 1]) = c

\* The scale of the literal recorded last is an abbreviation letter
AbbreviationApplied == cur.found_scale \in {<<"K">>, <<"M">>, <<"B">>, <<"T">>}

C5_Examples ==
  (NlpReturned /\ spacy_outcome = "skipped") =>
    /\ text = <<"1", "5", "0", "K">> =>
         numbers_with_context[1].value = Dec(150000, 0)
    /\ text = <<"1", "5", "0", "0", "K">> =>
         numbers_with_context[1].value = Dec(1500, 0)

\* C5: the abbreviation multiplier is applied to a literal only when no scale
\* word matched, its base value is below 1000 and the letter follows that
\* literal's own occurrence, after optional whitespace; "150K" gives 150000.0
\* and "1500K" stays 1500.0
C5_OwnSuffixOnly ==
  /\ (LiteralRecordedLast /\ AbbreviationApplied) =>
       /\ ScaleLoop(cur.number_str, Context)[1] = Dec(1, 0)
       /\ DecLess(cur.base_number, Dec(1000, 0))
       /\ LetterFollows(text, cur.number_end, cur.found_scale[1])
  /\ C5_Examples

\* The text is one percent literal and nothing else
OnePercentLiteral(t) ==
  /\ t # <<>>
  /\ t[Len(t)] = "%"
  /\ FindIter(number_pattern, t) = << <<0, Len(t)>> >>

\* Its number divided by 100
PercentValue(t) == DecMul(ParseFloat(RemoveChar(RemoveChar(RemoveChar(t, "$"), ","), "%")), Dec(1, -2))

\* C6: a percent literal contributes its number divided by 100 ("50%" gives
\* 0.5), in extract_numbers_with_context and in extract_numbers_from_text
C6_PercentAsFraction ==
  /\ (LiteralRecordedLast /\ Contains(cur.number_str, "%")) =>
       cur.base_number = PercentValue(cur.number_str)
  /\ (prog = "plain" /\ pc = "returned" /\ OnePercentLiteral(text)) =>
       numbers = <<PercentValue(text)>>

\* Where the j-th candidate of c belongs in the ranking: after every larger
\* one and after the equal ones met before it
RankOf(c, j) ==
  1 + Cardinality({k \in 1..Len(c) : DecLess(c[j].value, c[k].value)})
    + Cardinality({k \in 1..(j - 1) : c[k].value = c[j].value})

\* The values of a list of candidates
RECURSIVE ValuesOf(_)
ValuesOf(c) == IF c = <<>> THEN <<>> ELSE <<Head(c).value>> \o ValuesOf(Tail(c))

\* find_largest_number_nlp has returned for a non-empty list of candidates
Ranked == prog = "nlp" /\ pc = "report" /\ numbers_with_context # <<>>

\* C7: the ranked sequence is the candidates by descending value, equal values
\* in first-encountered order; the maximum and its context are its first
\* element; the top list is its first min(10, count) elements; for the values
\* [5, 100, 3, 1000000] the maximum is 1000000 and the first three are
\* [1000000, 100, 5]
C7_StableDescendingRank ==
  Ranked =>
    \A c \in {numbers_with_context} : \A r \in {result.sorted_numbers} :
      /\ Len(r) = Len(c)
      /\ \A j \in 1..Len(c) : r[RankOf(c, j)] = c[j]
      /\ result.max_number = r[1].value
      /\ result.max_context = r[1].ctx
      /\ result.top_10 = SubSeq(r, 1, IF Len(c) < 10 THEN Len(c) ELSE 10)
      /\ ValuesOf(c) = <<Dec(5, 0), Dec(100, 0), Dec(3, 0), Dec(1, 6)>> =>
           /\ result.max_number = Dec(1, 6)
           /\ ValuesOf(SubSeq(result.top_10, 1, 3)) = <<Dec(1, 6), Dec(100, 0), Dec(5, 0)>>

\* More than ten candidates have been ranked, equal in value but not in
\* context among them
C7_Witness ==
  /\ Ranked
  /\ Len(numbers_with_context) > 10
  /\ Len(result.top_10) = 10
  /\ \E i \in 1..Len(numbers_with_context) : \E j \in 1..Len(numbers_with_context) :
       /\ i < j
       /\ numbers_with_context[i].value = numbers_with_context[j].value
       /\ numbers_with_context[i].ctx # numbers_with_context[j].ctx

\* The run found nothing to report: no text, or no candidate in it
NothingFound ==
  /\ out.opened
  /\ env.pdf_readable
  /\ pc \in {"report", "exit"}
  /\ \/ text = <<>>
     \/ prog = "nlp" /\ numbers_with_context = <<>>
     \/ prog = "plain" /\ numbers = <<>>

\* The path given on the command line does not exist
MissingPath == entry = "main" /\ env.argv_given /\ ~env.file_exists

C8_State ==
  /\ pc = "exit" =>
       \/ out.status = 0 /\ out.largest
       \/ out.status > 0 /\ ~out.largest
  /\ NothingFound => out.warned /\ (pc = "exit" => out.status > 0)
  /\ MissingPath =>
       /\ ~out.opened /\ ~out.extracted
       /\ text = <<>> /\ numbers_with_context = <<>> /\ numbers = <<>>
       /\ spacy_outcome = "notrun"
       /\ pc \in {"main", "exit"}
       /\ pc = "exit" => out.status > 0

\* C8: every run of either main ends, printing a largest number with status 0
\* or with a non-zero status; when no text or no candidate is found a warning
\* is emitted and the status is non-zero; when the path does not exist the run
\* ends non-zero before the PDF is opened or anything is extracted
C8_MainEnds == [](C8_State) /\ <>(pc = "exit")

\* A run has ended non-zero after the warning that no number was found
C8_Witness ==
  /\ entry = "main"
  /\ pc = "exit"
  /\ NothingFound
  /\ text # <<>>
  /\ out.warned
  /\ out.status = 1

====
